---- MODULE Spec2Model ----
(***************************************************************************)
(* A model of performance.py: one control thread executing run() (one or   *)
(* several times in sequence), the module-level ThreadPoolExecutor that    *)
(* executes the sampled metrics' get_value calls, the Future completion    *)
(* callbacks that append to Metric._values, and the files run() leaves in  *)
(* the output directory (top/top_<ts>.txt and stats.csv).                  *)
(*                                                                         *)
(* Numbers are kept in hundredths (12.34 is 1234) so that round(x, 2) is   *)
(* integer arithmetic.  The wall clock counts ticks, TicksPerSecond to a   *)
(* second; strftime with second resolution drops the sub-second ticks.     *)
(***************************************************************************)
EXTENDS Integers, Sequences, FiniteSets, TLC

\* ---------------------------------------------------------------- bounds
MaxRuns == 2          \* calls of run() in one behaviour
MaxSlow == 1          \* reads that outlast the control thread's next submit/sleep
MaxIdle == 1          \* ticks that may pass between two calls of run()
MaxWorkers == 6       \* largest pool size explored (os.cpu_count() = 2)
TicksPerSecond == 2   \* clock resolution below the second
MaxLen == 3           \* longest sequence of readings fed to one metric
MaxVal == 3           \* largest reading fed to it, in hundredths

\* ------------------------------------------------------ program constants
NumRounds == 5        \* for i in range(0, 5)
SleepSeconds == 1     \* time.sleep(1)
MinWorkers == 5       \* ThreadPoolExecutor(): min(32, cpu_count + 4) >= 5

\* m() for m in [CPU, Memory, SwapMemory, DiskReadTime, DiskWriteTime]
Metrics == <<"CPU", "Memory", "SwapMemory", "DiskReadTime", "DiskWriteTime">>

MetricSet == {Metrics[n] : n \in 1..Len(Metrics)}

MetricIndex(m) == CHOOSE n \in 1..Len(Metrics) : Metrics[n] = m

Platforms == {"posix", "nt"}

Runs == 1..MaxRuns

Rounds == 1..NumRounds

\* One submitted get_value call: <<run, metric, round>>.
TaskIds == Runs \X MetricSet \X Rounds

\* headers, fixed at import time from os.name
Headers(os) ==
    <<"Timestamp", "CPU", "Memory", "Swap Memory", "Disk Read Time",
      "Disk Write Time", "Disk Usage", "Boot Time">>
    \o (IF os = "posix" THEN <<"Temperature", "Fan Speed">> ELSE <<>>)

\* Mutant of OneTimeMetrics: BootTime is read before DiskUsage.
OneTimeMetricsSwapped(os) ==
    <<[cls |-> "BootTime", inst |-> TRUE], [cls |-> "DiskUsage", inst |-> TRUE]>>
    \o (IF os = "posix"
        THEN <<[cls |-> "Temperature", inst |-> FALSE],
               [cls |-> "FanSpeed", inst |-> FALSE]>>
        ELSE <<>>)

\* one_time_metrics: two instances, then on posix two classes (not instances)
OneTimeMetrics(os) ==
    <<[cls |-> "DiskUsage", inst |-> TRUE], [cls |-> "BootTime", inst |-> TRUE]>>
    \o (IF os = "posix"
        THEN <<[cls |-> "Temperature", inst |-> FALSE],
               [cls |-> "FanSpeed", inst |-> FALSE]>>
        ELSE <<>>)

\* What get_value returns for a sampled metric in a given round (hundredths):
\* a fixed reading per metric and round, distinct for distinct reads.
Reading(m, i) == 1000 * MetricIndex(m) + 25 * i

\* What get_value returns for a one-time metric instance (hundredths).
\* Temperature and FanSpeed return 0.0 on every platform.
OneTimeValue(cls) ==
    CASE cls = "DiskUsage" -> 4250
      [] cls = "BootTime" -> 170000
      [] cls = "Temperature" -> 0
      [] cls = "FanSpeed" -> 0

RECURSIVE Sum(_)
Sum(s) == IF s = <<>> THEN 0 ELSE Head(s) + Sum(Tail(s))

\* Mutant of RoundDiv: the quotient is truncated.
RoundDivTruncates(n, d) == n \div d

\* round(n / d) to the nearest integer, ties to even (Python 3 round)
RoundDiv(n, d) ==
    LET q == n \div d
        r == n % d
    IN  IF 2 * r < d THEN q
        ELSE IF 2 * r > d THEN q + 1
        ELSE IF q % 2 = 0 THEN q ELSE q + 1

\* Metric.average: round(sum(values) / len(values), 2), in hundredths
Average(vals) == RoundDiv(Sum(vals), Len(vals))

\* max(self._values): the first largest element met from left to right
RECURSIVE MaxOf(_)
MaxOf(s) ==
    IF Len(s) = 1 THEN s[1]
    ELSE LET m == MaxOf(SubSeq(s, 1, Len(s) - 1))
         IN  IF s[Len(s)] > m THEN s[Len(s)] ELSE m

\* min(self._values): the first smallest element met from left to right
RECURSIVE MinOf(_)
MinOf(s) ==
    IF Len(s) = 1 THEN s[1]
    ELSE LET m == MinOf(SubSeq(s, 1, Len(s) - 1))
         IN  IF s[Len(s)] < m THEN s[Len(s)] ELSE m

\* Mutant of timestamp: the file name carries the time to the minute.
timestampToTheMinute(t) == t \div (60 * TicksPerSecond)

\* timestamp(dt): strftime("%Y%m%d%H%M%S"), the second the tick falls in
timestamp(t) == t \div TicksPerSecond

\* dt.strftime('%x %X'): locale date and time, also to the second
Strftime(t) == t \div TicksPerSecond

Cell(src, val) == [src |-> src, val |-> val]

\* A row of stats.csv; run is the call of run() that wrote it.
HeaderRow(os, r) == [kind |-> "header", run |-> r, names |-> Headers(os), cells |-> <<>>]

DataRow(r, cells) == [kind |-> "data", run |-> r, names |-> <<>>, cells |-> cells]

VARIABLES
    osname,     \* os.name of the host
    poolSize,   \* max_workers of the executor
    faulty,     \* the metric whose get_value may raise or hang, or "none"
    slowMax,    \* how many reads may be slow in this behaviour
    nruns,      \* how many times run() is called
    clock,      \* wall clock, in ticks
    dirs,       \* directories that exist: "out", "top"
    topFiles,   \* timestamps <ts> of the files top/top_<ts>.txt
    csvExists,  \* stats.csv exists
    csv,        \* rows of stats.csv
    pc,         \* per run: where the control thread is in run()
    dt,         \* per run: datetime.now() captured at line 139; -1 before it
    results,    \* per run: the row being assembled
    values,     \* per run and metric: Metric._values
    exists,     \* per run: local variable exists
    buf,        \* per run: rows written to the open csv file, flushed at close
    rnd,        \* per run: loop variable i of the rounds, 1-based
    idx,        \* per run: position in the list being iterated
    task,       \* per task: state of the Future
    cb,         \* tasks whose add_done_callback has been called
    queue,      \* executor work queue, FIFO
    late,       \* reads the control thread did not wait for
    fault,      \* per run: a source or the top command failed in this run
    topOpen,    \* runs whose top file is open and whose command is running
    overlap,    \* some run checked for stats.csv while another was between
                \* its own check and the close of the file
    stats       \* the last max, min and average read from a metric, or <<>>

vars == <<osname, poolSize, faulty, slowMax, nruns, clock, dirs, topFiles,
          csvExists, csv, pc, dt, results, values, exists, buf, rnd, idx,
          task, cb, queue, late, fault, topOpen, overlap, stats>>

envVars == <<osname, poolSize, faulty, slowMax, nruns>>

fsVars == <<dirs, topFiles, csvExists, csv>>

poolVars == <<task, cb, queue, late>>

obsVars == <<topOpen, overlap, stats>>

Ended == {"done", "aborted"}

\* From the exists check to the end of the with block.
CsvSection == {"open", "header", "row", "close"}

NoValues == [m \in MetricSet |-> <<>>]

InitWith(oses, pools, faulties, slow, n) ==
    /\ osname \in oses
    /\ poolSize \in pools
    /\ faulty \in faulties
    /\ slowMax = slow
    /\ nruns = n
    /\ clock = 0
    /\ dirs = {}
    /\ topFiles = {}
    /\ csvExists = FALSE
    /\ csv = <<>>
    /\ pc = [r \in Runs |-> "idle"]
    /\ dt = [r \in Runs |-> -1]
    /\ results = [r \in Runs |-> <<>>]
    /\ values = [r \in Runs |-> NoValues]
    /\ exists = [r \in Runs |-> FALSE]
    /\ buf = [r \in Runs |-> <<>>]
    /\ rnd = [r \in Runs |-> 1]
    /\ idx = [r \in Runs |-> 1]
    /\ task = [t \in TaskIds |-> "none"]
    /\ cb = {}
    /\ queue = <<>>
    /\ late = {}
    /\ fault = [r \in Runs |-> FALSE]
    /\ topOpen = {}
    /\ overlap = FALSE
    /\ stats = <<>>

\* ------------------------------------------------------------ the pool

Busy == Cardinality({t \in TaskIds : task[t] \in {"running", "hung"}})

Unsettled == {t \in TaskIds : task[t] \in {"queued", "running"}}

\* The control thread goes on without waiting for the reads still unsettled;
\* at most slowMax reads of a behaviour are left behind like this.
LeaveBehind ==
    /\ Cardinality(late \cup Unsettled) <= slowMax
    /\ late' = late \cup Unsettled

\* Mutant of AppendValue: the readings are kept per metric class, not per
\* instance, so a reading lands in the list of the latest call of run().
AppendValueShared(t) ==
    LET cur == CHOOSE r \in Runs : /\ pc[r] # "idle"
                                   /\ \A q \in Runs : pc[q] # "idle" => q <= r
    IN  values' = [values EXCEPT ![cur][t[2]] = Append(@, Reading(t[2], t[3]))]

\* Metric.append_value on a future holding a result
AppendValue(t) ==
    values' = [values EXCEPT ![t[1]][t[2]] = Append(@, Reading(t[2], t[3]))]

\* A worker thread takes the oldest work item.
WorkerStart ==
    /\ queue # <<>>
    /\ Busy < poolSize
    /\ task' = [task EXCEPT ![Head(queue)] = "running"]
    /\ queue' = Tail(queue)
    /\ UNCHANGED <<envVars, obsVars, fsVars, clock, pc, dt, results, values, exists,
                   buf, rnd, idx, cb, late, fault>>

\* Mutant of ReadReturn: the worker runs append_value whether or not the
\* callback is attached yet, and add_done_callback runs it again.
ReadReturnAlwaysAppends(t) ==
    /\ task[t] = "running"
    /\ task' = [task EXCEPT ![t] = "ok"]
    /\ AppendValue(t)
    /\ UNCHANGED <<envVars, obsVars, fsVars, clock, pc, dt, results, exists, buf, rnd,
                   idx, cb, queue, late, fault>>

\* get_value returns: set_result, then the callbacks registered so far run
\* in the worker thread.
ReadReturn(t) ==
    /\ task[t] = "running"
    /\ task' = [task EXCEPT ![t] = "ok"]
    /\ IF t \in cb THEN AppendValue(t) ELSE UNCHANGED values
    /\ UNCHANGED <<envVars, obsVars, fsVars, clock, pc, dt, results, exists, buf, rnd,
                   idx, cb, queue, late, fault>>

\* Mutant of ReadRaise: the callback records a placeholder for a failed read.
ReadRaiseAppends(t) ==
    /\ task[t] = "running"
    /\ t[2] = faulty
    /\ task' = [task EXCEPT ![t] = "raised"]
    /\ fault' = [fault EXCEPT ![t[1]] = TRUE]
    /\ values' = [values EXCEPT ![t[1]][t[2]] = Append(@, 0)]
    /\ UNCHANGED <<envVars, obsVars, fsVars, clock, pc, dt, results, exists,
                   buf, rnd, idx, cb, queue, late>>

\* get_value raises: set_exception; the callback's f.result() re-raises and
\* the executor logs and drops that exception, so nothing is appended.
ReadRaise(t) ==
    /\ task[t] = "running"
    /\ t[2] = faulty
    /\ task' = [task EXCEPT ![t] = "raised"]
    /\ fault' = [fault EXCEPT ![t[1]] = TRUE]
    /\ UNCHANGED <<envVars, obsVars, fsVars, clock, pc, dt, results, values, exists,
                   buf, rnd, idx, cb, queue, late>>

\* get_value never returns: the worker thread stays in it.
ReadHang(t) ==
    /\ task[t] = "running"
    /\ t[2] = faulty
    /\ task' = [task EXCEPT ![t] = "hung"]
    /\ fault' = [fault EXCEPT ![t[1]] = TRUE]
    /\ UNCHANGED <<envVars, obsVars, fsVars, clock, pc, dt, results, values, exists,
                   buf, rnd, idx, cb, queue, late>>

\* ------------------------------------------------------ the control thread

Goto(r, loc) == pc' = [pc EXCEPT ![r] = loc]

CurrentTask(r) == <<r, Metrics[idx[r]], rnd[r]>>

\* run() is called: the first time, or after the previous call has ended.
StartRun(r) ==
    /\ pc[r] = "idle"
    /\ r <= nruns
    /\ IF r = 1 THEN TRUE ELSE pc[r - 1] \in Ended
    /\ \E d \in 0..MaxIdle : clock' = clock + d
    /\ Goto(r, "mkdir")
    /\ UNCHANGED <<envVars, obsVars, fsVars, dt, results, values, exists, buf, rnd,
                   idx, poolVars, fault>>

\* output_dir.mkdir(parents=True, exist_ok=True)
MkOutputDir(r) ==
    /\ pc[r] = "mkdir"
    /\ dirs' = dirs \cup {"out"}
    /\ Goto(r, "now")
    /\ UNCHANGED <<envVars, obsVars, topFiles, csvExists, csv, clock, dt, results,
                   values, exists, buf, rnd, idx, poolVars, fault>>

\* dt = datetime.datetime.now()
Now(r) ==
    /\ pc[r] = "now"
    /\ dt' = [dt EXCEPT ![r] = clock]
    /\ Goto(r, "top_mkdir")
    /\ UNCHANGED <<envVars, obsVars, fsVars, clock, results, values, exists, buf, rnd,
                   idx, poolVars, fault>>

\* Mutant of TopMkdir: top() goes on to the file without creating top/.
TopMkdirSkipped(r) ==
    /\ pc[r] = "top_mkdir"
    /\ Goto(r, "top_open")
    /\ UNCHANGED <<envVars, obsVars, fsVars, clock, dt, results, values, exists, buf,
                   rnd, idx, poolVars, fault>>

\* top(): top_dir.mkdir(parents=True, exist_ok=True)
TopMkdir(r) ==
    /\ pc[r] = "top_mkdir"
    /\ dirs' = dirs \cup {"out", "top"}
    /\ Goto(r, "top_open")
    /\ UNCHANGED <<envVars, obsVars, topFiles, csvExists, csv, clock, dt, results,
                   values, exists, buf, rnd, idx, poolVars, fault>>

\* Mutant of TopOpen: the command is started in the background (Popen) and
\* run() goes on while it still writes to the open file.
TopOpenNoWait(r) ==
    /\ pc[r] = "top_open"
    /\ topFiles' = topFiles \cup {timestamp(dt[r])}
    /\ topOpen' = topOpen \cup {r}
    /\ Goto(r, "metrics")
    /\ UNCHANGED <<envVars, overlap, stats, dirs, csvExists, csv, clock, dt, results, values,
                   exists, buf, rnd, idx, poolVars, fault>>

\* write_output_to_file: path.open("w") creates or truncates top_<ts>.txt
TopOpen(r) ==
    /\ pc[r] = "top_open"
    /\ topFiles' = topFiles \cup {timestamp(dt[r])}
    /\ topOpen' = topOpen \cup {r}
    /\ Goto(r, "top_run")
    /\ UNCHANGED <<envVars, overlap, stats, dirs, csvExists, csv, clock, dt, results, values,
                   exists, buf, rnd, idx, poolVars, fault>>

\* subprocess.run(cmd, stdout=f) returns (whatever the exit status)
TopRunOk(r) ==
    /\ pc[r] = "top_run"
    /\ topOpen' = topOpen \ {r}
    /\ Goto(r, "metrics")
    /\ UNCHANGED <<envVars, overlap, stats, fsVars, clock, dt, results, values, exists, buf,
                   rnd, idx, poolVars, fault>>

\* subprocess.run raises (the command is not on PATH): run() is left
TopRunFail(r) ==
    /\ pc[r] = "top_run"
    /\ topOpen' = topOpen \ {r}
    /\ fault' = [fault EXCEPT ![r] = TRUE]
    /\ Goto(r, "aborted")
    /\ UNCHANGED <<envVars, overlap, stats, fsVars, clock, dt, results, values, exists, buf,
                   rnd, idx, poolVars>>

\* results = [dt.strftime('%x %X')]; metrics = [m() for m in [...]]
InitMetrics(r) ==
    /\ pc[r] = "metrics"
    /\ results' = [results EXCEPT ![r] = <<Cell("Timestamp", Strftime(dt[r]))>>]
    /\ values' = [values EXCEPT ![r] = NoValues]
    /\ rnd' = [rnd EXCEPT ![r] = 1]
    /\ idx' = [idx EXCEPT ![r] = 1]
    /\ Goto(r, "submit")
    /\ UNCHANGED <<envVars, obsVars, fsVars, clock, dt, exists, buf, poolVars, fault>>

\* Metric.generate, first line: f = executor.submit(self.get_value)
Submit(r) ==
    /\ pc[r] = "submit"
    /\ LeaveBehind
    /\ task' = [task EXCEPT ![CurrentTask(r)] = "queued"]
    /\ queue' = Append(queue, CurrentTask(r))
    /\ Goto(r, "addcb")
    /\ UNCHANGED <<envVars, obsVars, fsVars, clock, dt, results, values, exists, buf,
                   rnd, idx, cb, fault>>

\* Metric.generate, second line: f.add_done_callback(self.append_value).
\* A future already finished runs the callback at once, in this thread.
AddCallback(r) ==
    /\ pc[r] = "addcb"
    /\ cb' = cb \cup {CurrentTask(r)}
    /\ IF task[CurrentTask(r)] = "ok"
       THEN AppendValue(CurrentTask(r))
       ELSE UNCHANGED values
    /\ IF idx[r] < Len(Metrics)
       THEN /\ idx' = [idx EXCEPT ![r] = @ + 1]
            /\ Goto(r, "submit")
       ELSE /\ idx' = [idx EXCEPT ![r] = 1]
            /\ Goto(r, "sleep")
    /\ UNCHANGED <<envVars, obsVars, fsVars, clock, dt, results, exists, buf, rnd,
                   task, queue, late, fault>>

\* Mutant of Sleep: the loop goes on without waiting.
SleepNoWait(r) ==
    /\ pc[r] = "sleep"
    /\ LeaveBehind
    /\ IF rnd[r] < NumRounds
       THEN /\ rnd' = [rnd EXCEPT ![r] = @ + 1]
            /\ Goto(r, "submit")
       ELSE /\ UNCHANGED rnd
            /\ Goto(r, "average")
    /\ UNCHANGED <<envVars, obsVars, fsVars, clock, dt, results, values, exists, buf,
                   idx, task, cb, queue, fault>>

\* time.sleep(1), then the next round or the end of the loop
Sleep(r) ==
    /\ pc[r] = "sleep"
    /\ LeaveBehind
    /\ clock' = clock + SleepSeconds * TicksPerSecond
    /\ IF rnd[r] < NumRounds
       THEN /\ rnd' = [rnd EXCEPT ![r] = @ + 1]
            /\ Goto(r, "submit")
       ELSE /\ UNCHANGED rnd
            /\ Goto(r, "average")
    /\ UNCHANGED <<envVars, obsVars, fsVars, dt, results, values, exists, buf, idx,
                   task, cb, queue, fault>>

\* results.append(m.average), the metric has readings
ReadAverage(r) ==
    /\ pc[r] = "average"
    /\ values[r][Metrics[idx[r]]] # <<>>
    /\ results' = [results EXCEPT ![r] =
           Append(@, Cell(Metrics[idx[r]], Average(values[r][Metrics[idx[r]]])))]
    /\ IF idx[r] < Len(Metrics)
       THEN /\ idx' = [idx EXCEPT ![r] = @ + 1]
            /\ UNCHANGED pc
       ELSE /\ idx' = [idx EXCEPT ![r] = 1]
            /\ Goto(r, "onetime")
    /\ UNCHANGED <<envVars, obsVars, fsVars, clock, dt, values, exists, buf, rnd,
                   poolVars, fault>>

\* Mutant of AverageFail: an empty metric yields 0.0 and run() goes on.
AverageFailYieldsZero(r) ==
    /\ pc[r] = "average"
    /\ values[r][Metrics[idx[r]]] = <<>>
    /\ results' = [results EXCEPT ![r] = Append(@, Cell(Metrics[idx[r]], 0))]
    /\ IF idx[r] < Len(Metrics)
       THEN /\ idx' = [idx EXCEPT ![r] = @ + 1]
            /\ UNCHANGED pc
       ELSE /\ idx' = [idx EXCEPT ![r] = 1]
            /\ Goto(r, "onetime")
    /\ UNCHANGED <<envVars, obsVars, fsVars, clock, dt, values, exists, buf,
                   rnd, poolVars, fault>>

\* m.average on an empty list: ZeroDivisionError leaves run()
AverageFail(r) ==
    /\ pc[r] = "average"
    /\ values[r][Metrics[idx[r]]] = <<>>
    /\ Goto(r, "aborted")
    /\ UNCHANGED <<envVars, obsVars, fsVars, clock, dt, results, values, exists, buf,
                   rnd, idx, poolVars, fault>>

\* results.append(m.get_value()) on an instance
OneTimeRead(r) ==
    /\ pc[r] = "onetime"
    /\ OneTimeMetrics(osname)[idx[r]].inst
    /\ results' = [results EXCEPT ![r] =
           Append(@, Cell(OneTimeMetrics(osname)[idx[r]].cls,
                          OneTimeValue(OneTimeMetrics(osname)[idx[r]].cls)))]
    /\ IF idx[r] < Len(OneTimeMetrics(osname))
       THEN /\ idx' = [idx EXCEPT ![r] = @ + 1]
            /\ UNCHANGED pc
       ELSE /\ idx' = [idx EXCEPT ![r] = 1]
            /\ Goto(r, "exists")
    /\ UNCHANGED <<envVars, obsVars, fsVars, clock, dt, values, exists, buf, rnd,
                   poolVars, fault>>

\* m.get_value() on a class: TypeError (no self) leaves run()
OneTimeTypeError(r) ==
    /\ pc[r] = "onetime"
    /\ ~OneTimeMetrics(osname)[idx[r]].inst
    /\ Goto(r, "aborted")
    /\ UNCHANGED <<envVars, obsVars, fsVars, clock, dt, results, values, exists, buf,
                   rnd, idx, poolVars, fault>>

\* Mutant of OneTimeRaise: the row gathered so far is written on the way out.
OneTimeRaiseFlushes(r) ==
    /\ pc[r] = "onetime"
    /\ OneTimeMetrics(osname)[idx[r]].inst
    /\ fault' = [fault EXCEPT ![r] = TRUE]
    /\ csvExists' = TRUE
    /\ csv' = Append(csv, DataRow(r, results[r]))
    /\ Goto(r, "aborted")
    /\ UNCHANGED <<envVars, obsVars, dirs, topFiles, clock, dt, results, values,
                   exists, buf, rnd, idx, poolVars>>

\* m.get_value() on an instance raises (the OS query fails): run() is left
OneTimeRaise(r) ==
    /\ pc[r] = "onetime"
    /\ OneTimeMetrics(osname)[idx[r]].inst
    /\ fault' = [fault EXCEPT ![r] = TRUE]
    /\ Goto(r, "aborted")
    /\ UNCHANGED <<envVars, obsVars, fsVars, clock, dt, results, values, exists, buf,
                   rnd, idx, poolVars>>

\* Mutant of CheckExists: the file is always taken to be absent.
CheckExistsAlwaysAbsent(r) ==
    /\ pc[r] = "exists"
    /\ exists' = [exists EXCEPT ![r] = FALSE]
    /\ overlap' = (overlap \/ \E q \in Runs \ {r} : pc[q] \in CsvSection)
    /\ Goto(r, "open")
    /\ UNCHANGED <<envVars, topOpen, stats, fsVars, clock, dt, results, values,
                   buf, rnd, idx, poolVars, fault>>

\* exists = stats_file.exists()
CheckExists(r) ==
    /\ pc[r] = "exists"
    /\ exists' = [exists EXCEPT ![r] = csvExists]
    /\ overlap' = (overlap \/ \E q \in Runs \ {r} : pc[q] \in CsvSection)
    /\ Goto(r, "open")
    /\ UNCHANGED <<envVars, topOpen, stats, fsVars, clock, dt, results, values, buf, rnd, idx,
                   poolVars, fault>>

\* stats_file.open('a', newline=""): creates the file when absent
OpenCsv(r) ==
    /\ pc[r] = "open"
    /\ csvExists' = TRUE
    /\ buf' = [buf EXCEPT ![r] = <<>>]
    /\ Goto(r, IF exists[r] THEN "row" ELSE "header")
    /\ UNCHANGED <<envVars, obsVars, dirs, topFiles, csv, clock, dt, results, values,
                   exists, rnd, idx, poolVars, fault>>

\* if not exists: writer.writerow(headers)
WriteHeader(r) ==
    /\ pc[r] = "header"
    /\ buf' = [buf EXCEPT ![r] = Append(@, HeaderRow(osname, r))]
    /\ Goto(r, "row")
    /\ UNCHANGED <<envVars, obsVars, fsVars, clock, dt, results, values, exists, rnd,
                   idx, poolVars, fault>>

\* writer.writerow(results)
WriteRow(r) ==
    /\ pc[r] = "row"
    /\ buf' = [buf EXCEPT ![r] = Append(@, DataRow(r, results[r]))]
    /\ Goto(r, "close")
    /\ UNCHANGED <<envVars, obsVars, fsVars, clock, dt, results, values, exists, rnd,
                   idx, poolVars, fault>>

\* leaving the with block: the buffered rows reach the file in one append
CloseCsv(r) ==
    /\ pc[r] = "close"
    /\ csv' = csv \o buf[r]
    /\ buf' = [buf EXCEPT ![r] = <<>>]
    /\ Goto(r, "done")
    /\ UNCHANGED <<envVars, obsVars, dirs, topFiles, csvExists, clock, dt, results,
                   values, exists, rnd, idx, poolVars, fault>>

\* ---------------------------------------------- one metric, fed directly

\* append_value with a future whose result is v, on the first metric of
\* run 1: a sequence of synthetic readings is built one reading at a time.
FeedValue(v) ==
    /\ Len(values[1][Metrics[1]]) < MaxLen
    /\ values' = [values EXCEPT ![1][Metrics[1]] = Append(@, v)]
    /\ UNCHANGED <<envVars, obsVars, fsVars, clock, pc, dt, results, exists,
                   buf, rnd, idx, poolVars, fault>>

\* The properties max, min and average of that metric are read.
ReadStats ==
    /\ values[1][Metrics[1]] # <<>>
    /\ stats' = [of |-> values[1][Metrics[1]],
                 max |-> MaxOf(values[1][Metrics[1]]),
                 min |-> MinOf(values[1][Metrics[1]]),
                 average |-> Average(values[1][Metrics[1]])]
    /\ UNCHANGED <<envVars, topOpen, overlap, fsVars, clock, pc, dt, results,
                   values, exists, buf, rnd, idx, poolVars, fault>>

\* --------------------------------------------------------- specifications

\* run() up to the end of the sampling loop
Sampling(r) ==
    \/ StartRun(r)
    \/ MkOutputDir(r)
    \/ Now(r)
    \/ TopMkdir(r)
    \/ TopOpen(r)
    \/ TopRunOk(r)
    \/ InitMetrics(r)
    \/ Submit(r)
    \/ AddCallback(r)
    \/ Sleep(r)

\* run() from the averages to the csv file
Reporting(r) ==
    \/ ReadAverage(r)
    \/ OneTimeRead(r)
    \/ OneTimeTypeError(r)
    \/ CheckExists(r)
    \/ OpenCsv(r)
    \/ WriteHeader(r)
    \/ WriteRow(r)
    \/ CloseCsv(r)

Pool ==
    \/ WorkerStart
    \/ \E t \in TaskIds : ReadReturn(t)

\* Sequential calls of run() on either platform; every sampled read returns
\* before the control thread goes on; the top command or a one-time source
\* may fail.
Init == InitWith(Platforms, {MinWorkers}, {"none"}, 0, MaxRuns)

Next ==
    \/ \E r \in Runs : Sampling(r)
    \/ \E r \in Runs : Reporting(r)
    \/ \E r \in Runs : TopRunFail(r)
    \/ \E r \in Runs : OneTimeRaise(r)
    \/ Pool

Spec == Init /\ [][Next]_vars

\* One call of run(); the reads of one metric may raise.
InitRaise == InitWith(Platforms, {MinWorkers}, MetricSet, 0, 1)

NextRaise ==
    \/ \E r \in Runs : Sampling(r)
    \/ \E r \in Runs : Reporting(r)
    \/ \E r \in Runs : AverageFail(r)
    \/ \E r \in Runs : TopRunFail(r)
    \/ \E r \in Runs : OneTimeRaise(r)
    \/ Pool
    \/ \E t \in TaskIds : ReadRaise(t)

SpecRaise == InitRaise /\ [][NextRaise]_vars

\* One call of run(); up to MaxSlow reads take arbitrarily long.
InitSlow == InitWith(Platforms, {MinWorkers}, {"none"}, MaxSlow, 1)

NextSlow ==
    \/ \E r \in Runs : Sampling(r)
    \/ \E r \in Runs : Reporting(r)
    \/ Pool

SpecSlow == InitSlow /\ [][NextSlow]_vars

\* Sequential calls of run() in one process, sharing the executor; up to
\* MaxSlow reads take arbitrarily long and may return during a later call.
InitLate == InitWith(Platforms, {MinWorkers}, {"none"}, MaxSlow, MaxRuns)

SpecLate == InitLate /\ [][NextSlow]_vars

\* One call of run(); the reads of one metric may never return; every pool
\* size from MinWorkers to MaxWorkers.
InitHang == InitWith(Platforms, MinWorkers..MaxWorkers, MetricSet, 0, 1)

NextHang ==
    \/ \E r \in Runs : Sampling(r)
    \/ \E r \in Runs : Reporting(r)
    \/ \E r \in Runs : AverageFail(r)
    \/ Pool
    \/ \E t \in TaskIds : ReadHang(t)

SpecHang == InitHang /\ [][NextHang]_vars

\* The readings of a run whose 25 reads all returned, and its row after the
\* averages have been read.
FullValues == [m \in MetricSet |-> [i \in Rounds |-> Reading(m, i)]]

AveragedRow(t) ==
    <<Cell("Timestamp", Strftime(t))>>
    \o [n \in 1..Len(Metrics) |-> Cell(Metrics[n], Average(FullValues[Metrics[n]]))]

\* Several processes execute run() on nt against the same, fresh output
\* directory at the same time, each with its own pool; each has taken its
\* snapshot, sampled its five rounds and read its averages, and is about to
\* read the one-time sources and append to stats.csv.
InitCsv ==
    /\ osname = "nt"
    /\ poolSize = MinWorkers
    /\ faulty = "none"
    /\ slowMax = 0
    /\ nruns = MaxRuns
    /\ dt \in [Runs -> 0..MaxIdle]
    /\ clock = MaxIdle + NumRounds * SleepSeconds * TicksPerSecond
    /\ dirs = {"out", "top"}
    /\ topFiles = {timestamp(dt[r]) : r \in Runs}
    /\ csvExists = FALSE
    /\ csv = <<>>
    /\ pc = [r \in Runs |-> "onetime"]
    /\ results = [r \in Runs |-> AveragedRow(dt[r])]
    /\ values = [r \in Runs |-> FullValues]
    /\ exists = [r \in Runs |-> FALSE]
    /\ buf = [r \in Runs |-> <<>>]
    /\ rnd = [r \in Runs |-> NumRounds]
    /\ idx = [r \in Runs |-> 1]
    /\ task = [t \in TaskIds |-> "ok"]
    /\ cb = TaskIds
    /\ queue = <<>>
    /\ late = {}
    /\ fault = [r \in Runs |-> FALSE]
    /\ topOpen = {}
    /\ overlap = FALSE
    /\ stats = <<>>

NextCsv ==
    \/ \E r \in Runs : OneTimeRead(r)
    \/ \E r \in Runs : OneTimeRaise(r)
    \/ \E r \in Runs : CheckExists(r)
    \/ \E r \in Runs : OpenCsv(r)
    \/ \E r \in Runs : WriteHeader(r)
    \/ \E r \in Runs : WriteRow(r)
    \/ \E r \in Runs : CloseCsv(r)

SpecCsv == InitCsv /\ [][NextCsv]_vars

\* A metric fed every sequence of up to MaxLen readings from 0..MaxVal, its
\* properties read after any of them.
InitStats == InitWith({"nt"}, {MinWorkers}, {"none"}, 0, 1)

NextStats ==
    \/ \E v \in 0..MaxVal : FeedValue(v)
    \/ ReadStats

SpecStats == InitStats /\ [][NextStats]_vars

\* ------------------------------------------------------------ properties

HeaderRows == {k \in DOMAIN csv : csv[k].kind = "header"}

DataRows == {k \in DOMAIN csv : csv[k].kind = "data"}

RowsOf(r) == {k \in DOMAIN csv : csv[k].run = r}

EndedRuns == {r \in Runs : pc[r] \in Ended}

DoneRuns == {r \in Runs : pc[r] = "done"}

NoRunInProgress == \A r \in Runs : pc[r] \in Ended \cup {"idle"}

TasksOf(r) == {t \in TaskIds : t[1] = r}

\* The header that names a metric class.
ColumnName(src) ==
    CASE src = "SwapMemory" -> "Swap Memory"
      [] src = "DiskReadTime" -> "Disk Read Time"
      [] src = "DiskWriteTime" -> "Disk Write Time"
      [] src = "DiskUsage" -> "Disk Usage"
      [] src = "BootTime" -> "Boot Time"
      [] src = "FanSpeed" -> "Fan Speed"
      [] OTHER -> src

\* C1: when run() reads the averages, every sampled metric holds exactly
\* NumRounds readings, however long the reads take.
C1_FiveReadingsAtAverage ==
    \A r \in Runs :
        pc[r] = "average" =>
            \A m \in MetricSet : Len(values[r][m]) = NumRounds

\* C2: after N calls of run() in which no source and no command failed,
\* stats.csv holds exactly one header row, as its first row, and N data rows.
C2_OneHeaderNRows ==
    (/\ NoRunInProgress
     /\ EndedRuns # {}
     /\ \A r \in EndedRuns : ~fault[r])
    => /\ Cardinality(HeaderRows) = 1
       /\ csv[1].kind = "header"
       /\ Cardinality(DataRows) = Cardinality(EndedRuns)

\* C3: the row a call of run() assembles has as many columns as the header
\* list of the platform: 8 on nt, 10 on posix.
C3_RowMatchesHeader ==
    \A r \in Runs :
        (pc[r] \in Ended /\ ~fault[r]) =>
            /\ Len(results[r]) = Len(Headers(osname))
            /\ Len(results[r]) = IF osname = "posix" THEN 10 ELSE 8

\* C4: on posix a call of run() writes a row whose Temperature and Fan Speed
\* columns are present and 0.0; on nt neither the header nor the row has them.
C4_SensorColumns ==
    \A r \in Runs :
        (pc[r] \in Ended /\ ~fault[r]) =>
            IF osname = "posix"
            THEN \E k \in DataRows :
                    /\ csv[k].run = r
                    /\ Len(csv[k].cells) = 10
                    /\ csv[k].cells[9] = Cell("Temperature", 0)
                    /\ csv[k].cells[10] = Cell("FanSpeed", 0)
            ELSE \A k \in DOMAIN csv :
                    /\ \A p \in DOMAIN csv[k].names :
                           csv[k].names[p] \notin {"Temperature", "Fan Speed"}
                    /\ \A p \in DOMAIN csv[k].cells :
                           csv[k].cells[p].src \notin {"Temperature", "FanSpeed"}

\* The value run() is meant to put under the header of metric src.
ColumnValue(r, src) ==
    IF src = "Timestamp" THEN Strftime(dt[r])
    ELSE IF src \in MetricSet THEN Average(values[r][src])
    ELSE OneTimeValue(src)

\* C5: every column of every data row of stats.csv holds the value of the
\* metric its header names: the timestamp, the five averages in the declared
\* order, then the one-time values in the declared order.
C5_ColumnsUnderTheirHeaders ==
    \A k \in DataRows :
        /\ Len(csv[k].cells) = Len(Headers(osname))
        /\ \A p \in DOMAIN csv[k].cells :
               /\ ColumnName(csv[k].cells[p].src) = Headers(osname)[p]
               /\ csv[k].cells[p].val = ColumnValue(csv[k].run, csv[k].cells[p].src)

C5_Witness ==
    /\ Cardinality(DataRows) = 2
    /\ Cardinality(HeaderRows) = 1

Returned(r, m) ==
    {Reading(m, i) : i \in {j \in Rounds : /\ task[<<r, m, j>>] = "ok"
                                            /\ <<r, m, j>> \in cb}}

Recorded(r, m) == {values[r][m][n] : n \in DOMAIN values[r][m]}

\* C7: a read that raises loses only its own sample.  Every metric's sequence
\* holds, once each, exactly the readings of its reads that returned; when
\* the averages are read, every metric other than the failing one holds all
\* NumRounds readings and the failing one holds those of its good rounds.
C7_RaiseLosesOnlyItsSample ==
    \A r \in Runs :
        /\ \A m \in MetricSet :
               /\ Recorded(r, m) = Returned(r, m)
               /\ Len(values[r][m]) = Cardinality(Returned(r, m))
        /\ pc[r] = "average" =>
               \A m \in MetricSet :
                   Len(values[r][m]) =
                       NumRounds - Cardinality({i \in Rounds : task[<<r, m, i>>] = "raised"})

C7_Witness ==
    \E r \in Runs :
        /\ pc[r] = "average"
        /\ task[<<r, "Memory", 2>>] = "raised"
        /\ task[<<r, "Memory", 3>>] = "ok"
        /\ Len(values[r]["Memory"]) = NumRounds - 1
        /\ Len(values[r]["CPU"]) = NumRounds

\* C8: reads that never return do not keep the pool from executing the other
\* reads: no read waits in the queue while every worker is stuck.
C8_HungReadsDoNotStarve ==
    ~(/\ queue # <<>>
      /\ Cardinality({t \in TaskIds : task[t] = "hung"}) = poolSize)

\* C9: the successful calls of run() have each appended one data row and
\* written a top file of their own: their timestamps differ pairwise.
C9_DistinctTopFiles ==
    /\ Cardinality(DataRows) = Cardinality(DoneRuns)
    /\ \A r \in DoneRuns : timestamp(dt[r]) \in topFiles
    /\ \A r1, r2 \in DoneRuns : r1 # r2 => timestamp(dt[r1]) # timestamp(dt[r2])

C9_Witness ==
    /\ Cardinality(DoneRuns) = 2
    /\ Cardinality(topFiles) = 2
    /\ Cardinality(DataRows) = 2

\* C10: each one-time source is read once, in the declared order, and the
\* first of these reads starts only when no sampled read of the run is still
\* queued or running.
C10_OneTimeAfterSampling ==
    \A r \in Runs :
        /\ (pc[r] = "onetime" /\ idx[r] = 1) => TasksOf(r) \cap Unsettled = {}
        /\ (pc[r] \in Ended /\ ~fault[r]) =>
               [p \in 1..(Len(results[r]) - 1 - Len(Metrics)) |->
                    results[r][p + 1 + Len(Metrics)].src]
               = [p \in 1..Len(OneTimeMetrics(osname)) |-> OneTimeMetrics(osname)[p].cls]

\* C11: starting from a missing output directory, run() has created it, and
\* top/ beneath it, whenever it is about to create top/top_<ts>.txt or to open
\* stats.csv; no file exists while its parent directory is missing.
C11_DirectoriesBeforeFiles ==
    /\ \A r \in Runs :
           /\ pc[r] \in {"top_open", "top_run"} => {"out", "top"} \subseteq dirs
           /\ pc[r] \in {"exists", "open", "header", "row", "close"} => "out" \in dirs
    /\ topFiles # {} => {"out", "top"} \subseteq dirs
    /\ csvExists => "out" \in dirs

C11_Witness ==
    /\ pc[1] = "done"
    /\ dirs = {"out", "top"}
    /\ topFiles # {}
    /\ csvExists
    /\ csv # <<>>

Elements(s) == {s[n] : n \in DOMAIN s}

\* C12: for every non-empty sequence of readings, average is the multiple of
\* 0.01 nearest to the arithmetic mean (no further from it than 0.005), min
\* is the smallest reading and max the largest.
C12_AverageMinMax ==
    stats # <<>> =>
        /\ 2 * (Len(stats.of) * stats.average - Sum(stats.of)) <= Len(stats.of)
        /\ 2 * (Sum(stats.of) - Len(stats.of) * stats.average) <= Len(stats.of)
        /\ stats.min \in Elements(stats.of)
        /\ \A x \in Elements(stats.of) : stats.min <= x
        /\ stats.max \in Elements(stats.of)
        /\ \A x \in Elements(stats.of) : x <= stats.max

C12_Witness ==
    /\ stats # <<>>
    /\ stats.of = <<2, 0, 3>>
    /\ stats.average = 2
    /\ stats.min = 0
    /\ stats.max = 3

\* C13 as stated: however the runs appending to stats.csv are interleaved,
\* the file holds exactly one header row, and it is the first row.
C13_HeaderExactlyOnce ==
    csv # <<>> =>
        /\ Cardinality(HeaderRows) = 1
        /\ csv[1].kind = "header"

\* C13 amended: when no run makes its exists check while another run is
\* between its own check and the close of the file, stats.csv holds exactly
\* one header row, and it is the first row.
C13_HeaderOnceWithoutOverlap ==
    (~overlap /\ csv # <<>>) =>
        /\ Cardinality(HeaderRows) = 1
        /\ csv[1].kind = "header"

C13_Witness ==
    /\ ~overlap
    /\ \A r \in Runs : pc[r] = "done"
    /\ Cardinality(HeaderRows) = 1
    /\ Cardinality(DataRows) = MaxRuns

\* C14: in every metric the readings are in round order: a reading of a
\* later round is never ahead of a reading of an earlier round.
C14_ReadingsInRoundOrder ==
    \A r \in Runs : \A m \in MetricSet :
        \A a, b \in DOMAIN values[r][m] :
            a < b => values[r][m][a] < values[r][m][b]

\* The run has left the sampling loop.
PastSampling(r) ==
    pc[r] \in {"average", "onetime", "exists", "open", "header", "row",
               "close", "done"}
    \/ (pc[r] = "aborted" /\ results[r] # <<>>)

FirstEmpty(r) ==
    CHOOSE n \in 1..Len(Metrics) :
        /\ values[r][Metrics[n]] = <<>>
        /\ \A k \in 1..(n - 1) : values[r][Metrics[k]] # <<>>

\* C15: when a metric has no reading after the sampling loop, run() gets no
\* further than reading that metric's average: it is aborted there with the
\* averages of the metrics before it, stats.csv is not opened and receives
\* neither a header nor a row from that run.
C15_EmptyMetricAbortsBeforeCsv ==
    \A r \in Runs :
        (PastSampling(r) /\ \E m \in MetricSet : values[r][m] = <<>>) =>
            /\ pc[r] \in {"average", "aborted"}
            /\ Len(results[r]) <= FirstEmpty(r)
            /\ RowsOf(r) = {}
            /\ buf[r] = <<>>
            /\ ~csvExists

C15_Witness ==
    \E r \in Runs :
        /\ pc[r] = "aborted"
        /\ values[r]["SwapMemory"] = <<>>
        /\ \A i \in Rounds : task[<<r, "SwapMemory", i>>] = "raised"
        /\ Len(results[r]) = 3
        /\ ~csvExists

\* Run r has submitted at least one read to the pool.
SamplingStarted(r) == \E t \in TasksOf(r) : task[t] # "none"

\* C16: in every run, once the first read of round 1 has been submitted the
\* process-listing command has exited and its output file is closed (and the
\* file of that run's timestamp exists); and while the command runs with the
\* file open, the run's timestamp has already been captured and names the file.
C16_SnapshotPrecedesSampling ==
    \A r \in Runs :
        /\ (SamplingStarted(r) \/ pc[r] \in {"submit", "addcb"}) =>
               /\ r \notin topOpen
               /\ dt[r] >= 0
               /\ timestamp(dt[r]) \in topFiles
        /\ (r \in topOpen \/ pc[r] \in {"top_mkdir", "top_open", "top_run"}) =>
               /\ dt[r] >= 0
               /\ dt[r] <= clock
               /\ ~SamplingStarted(r)
        /\ r \in topOpen => timestamp(dt[r]) \in topFiles

C16_Witness ==
    \E r \in Runs :
        /\ pc[r] = "addcb"
        /\ rnd[r] = 1
        /\ idx[r] = 1
        /\ task[<<r, Metrics[1], 1>>] = "queued"
        /\ topOpen = {}
        /\ timestamp(dt[r]) \in topFiles

\* The readings of the reads of metric m that run r submitted and that returned.
OwnReadings(r, m) == {Reading(m, i) : i \in {j \in Rounds : task[<<r, m, j>>] = "ok"}}

\* C17: the sampled metrics of a run are its own.  A run that has submitted
\* no read holds five empty sequences; every sequence holds only readings of
\* reads its own run submitted, no more of them than returned; and every
\* average in a run's row is the average of readings of that run's sequence,
\* also when a read of an earlier run returns during a later run.
C17_MetricStateFreshPerRun ==
    \A r \in Runs :
        /\ ~SamplingStarted(r) => values[r] = NoValues
        /\ \A m \in MetricSet :
               /\ Recorded(r, m) \subseteq OwnReadings(r, m)
               /\ Len(values[r][m]) <= Cardinality(OwnReadings(r, m))
        /\ \A k \in 2..Len(results[r]) :
               k <= Len(Metrics) + 1 =>
                   /\ results[r][k].src = Metrics[k - 1]
                   /\ \E n \in 1..Len(values[r][Metrics[k - 1]]) :
                          results[r][k].val =
                              Average(SubSeq(values[r][Metrics[k - 1]], 1, n))

\* The last CPU read of the first run returned after that run's average was
\* read, and the second run has by then recorded its own first CPU reading.
C17_Witness ==
    /\ <<1, "CPU", NumRounds>> \in late
    /\ task[<<1, "CPU", NumRounds>>] = "ok"
    /\ Len(values[1]["CPU"]) = NumRounds
    /\ Len(results[1]) >= 2
    /\ results[1][2].val # Average(values[1]["CPU"])
    /\ pc[2] = "sleep"
    /\ rnd[2] = 1
    /\ values[2]["CPU"] = <<Reading("CPU", 1)>>

\* The rounds in which run r has submitted a read of metric m.
Submitted(r, m) == {i \in Rounds : task[<<r, m, i>>] # "none"}

\* C18: at every point of a run, a sampled metric holds at most as many
\* readings as reads were submitted for it so far, which is at most the number
\* of rounds begun and at most NumRounds; and no read is recorded twice,
\* whether its callback ran in the worker thread or in the thread of run().
C18_AtMostOneAppendPerRead ==
    \A r \in Runs : \A m \in MetricSet :
        /\ Len(values[r][m]) <= Cardinality(Submitted(r, m))
        /\ Submitted(r, m) \subseteq 1..rnd[r]
        /\ Cardinality(Submitted(r, m)) <= NumRounds
        /\ Cardinality(Recorded(r, m)) = Len(values[r][m])
        /\ \A i \in Rounds :
               <<r, m, i>> \notin cb => Reading(m, i) \notin Recorded(r, m)

\* Two CPU reads submitted and both recorded once: the first one late, by
\* the worker thread, after the second.
C18_Witness ==
    \E r \in Runs :
        /\ Submitted(r, "CPU") = {1, 2}
        /\ <<r, "CPU", 1>> \in late
        /\ values[r]["CPU"] = <<Reading("CPU", 2), Reading("CPU", 1)>>

\* The top files named by the runs that have a data row in stats.csv.
TopFilesOfRows == {timestamp(dt[csv[k].run]) : k \in DataRows}

\* C19: at every point of a sequence of calls of run(), ended well or not,
\* stats.csv has at most as many data rows as top/ has files; every data row
\* stands for a run whose top file, named by the timestamp in the row,
\* exists, one file per row; and a run that ended without a row has none.
C19_RowsHaveTopFiles ==
    /\ Cardinality(DataRows) <= Cardinality(topFiles)
    /\ TopFilesOfRows \subseteq topFiles
    /\ Cardinality(TopFilesOfRows) = Cardinality(DataRows)
    /\ \A k \in DataRows :
           /\ csv[k].cells[1].val = Strftime(dt[csv[k].run])
           /\ pc[csv[k].run] \in {"close", "done"}
    /\ \A r \in Runs : pc[r] = "aborted" => RowsOf(r) = {}

\* One run left at the top command, the next one ended well: two files in
\* top/, one data row.
C19_Witness ==
    /\ pc[1] = "aborted"
    /\ pc[2] = "done"
    /\ Cardinality(topFiles) = 2
    /\ Cardinality(DataRows) = 1
    /\ \A k \in DataRows : csv[k].run = 2 /\ timestamp(dt[2]) \in topFiles

====
